---- MODULE Spec2Model ----
(***************************************************************************)
(* A model of the bsdiff4 patch reader and applier of src/src/lib.rs.      *)
(*                                                                         *)
(* 64-bit integers are modelled exactly, as the set of their set bit       *)
(* positions (a subset of 0..63, two's complement for i64), so that the    *)
(* bit manipulation of ones_complement_i64 is the code's, at full width.   *)
(* Buffer positions and lengths are small naturals.  The bzip2 decoder is  *)
(* a library: a compressed block is represented by the outcome of          *)
(* decompressing it (an error, or the decompressed bytes).                 *)
(***************************************************************************)
EXTENDS Integers, Sequences, FiniteSets, TLC

VARIABLES
    pc,          \* position of the caller: which call of the API comes next
    head,        \* the header bytes Bsdiff4::read consumed from the reader
    block,       \* the decompressed control block read_control_block decoded
    new_size,    \* Bsdiff4.new_size   (a 64-bit word)
    control,     \* Bsdiff4.control    (sequence of Control records)
    diff,        \* Bsdiff4.diff       (bytes)
    extra,       \* Bsdiff4.extra      (bytes)
    read_err,    \* the error Bsdiff4::read returned, "" if none
    parsed,      \* the container as Bsdiff4::read returned it
    original,    \* the bytes behind the `original` cursor of the current apply
    start,       \* position of the `original` cursor when apply was called
    pos,         \* position of the `original` cursor
    dpos,        \* position of the cursor over self.diff   (local to apply)
    epos,        \* position of the cursor over self.extra  (local to apply)
    new,         \* the bytes written to the `new` writer
    k,           \* index of the Control record the loop of apply is at
    result,      \* what the current apply returned
    memo,        \* an earlier call of apply on this container, and its result
    codec_in,    \* 8 bytes handed to read_ones_complement_le_i64 on its own
    codec_out    \* what it returned

vars == <<pc, head, block, new_size, control, diff, extra, read_err, parsed,
          original, start, pos, dpos, epos, new, k, result, memo,
          codec_in, codec_out>>

read_vars == <<head, block, new_size, control, diff, extra, read_err, parsed>>
apply_vars == <<original, start, pos, dpos, epos, new, k, result>>
codec_vars == <<codec_in, codec_out>>

----------------------------------------------------------------------------
(* Bounds of the model.                                                    *)

MaxInstr == 2

----------------------------------------------------------------------------
(* 64-bit words.                                                           *)

I64_BITS == 64

SetMin(S) == CHOOSE x \in S : \A y \in S : x <= y

MinOf(a, b) == IF a <= b THEN a ELSE b

RECURSIVE Pow2(_)
Pow2(n) == IF n = 0 THEN 1 ELSE 2 * Pow2(n - 1)

\* The bits of one byte, least significant first.
ByteBits(b) == {i \in 0..7 : (b \div Pow2(i)) % 2 = 1}

\* byteorder's read_i64::<LE> on 8 bytes: byte j (from 0) holds bits 8j..8j+7.
ReadI64LE(bytes) ==
    UNION {{8 * (j - 1) + i : i \in ByteBits(bytes[j])} : j \in 1..8}

\* i64::MIN: the sign bit alone.
I64_MIN == {I64_BITS - 1}

IsNegative(y) == (I64_BITS - 1) \in y

\* i64::wrapping_neg: invert every bit and add one, modulo 2^64.
WrappingNeg(y) ==
    IF y = {} THEN {}
    ELSE LET t == SetMin(y)
         IN  {t} \cup {i \in (t + 1)..(I64_BITS - 1) : i \notin y}

\* i64::wrapping_abs
WrappingAbs(y) == IF IsNegative(y) THEN WrappingNeg(y) ELSE y

\* y & i64::MIN | y.wrapping_abs()   (& binds tighter than |)
ones_complement_i64(y) == (y \cap I64_MIN) \cup WrappingAbs(y)

\* A faulty variant of U64TryFrom: `n as u64`, which reinterprets a negative n.
U64Cast(n) == [ok |-> TRUE, val |-> n]

\* u64::try_from(n) of an i64: fails exactly when n is negative.
U64TryFrom(n) == IF IsNegative(n) THEN [ok |-> FALSE] ELSE [ok |-> TRUE, val |-> n]

\* usize::try_from(n) of a u64, on a 64-bit platform: every u64 fits.
USIZE_BITS == 64

UsizeTryFrom(n) ==
    IF \E i \in n : i >= USIZE_BITS THEN [ok |-> FALSE] ELSE [ok |-> TRUE, val |-> n]

\* read_i64 needs 8 bytes; the reader may hold fewer.
read_ones_complement_le_i64(bytes) ==
    IF Len(bytes) < 8 THEN [ok |-> FALSE]
    ELSE [ok |-> TRUE, val |-> ones_complement_i64(ReadI64LE(bytes))]

read_positive_le_i64(bytes) ==
    IF Len(bytes) < 8 THEN [ok |-> FALSE]
    ELSE U64TryFrom(ReadI64LE(bytes))

\* A word below 2^SmallBits converts to a natural number of the model.
SmallBits == 20

IsSmall(w) == \A i \in w : i < SmallBits

RECURSIVE ToNat(_)
ToNat(w) == IF w = {} THEN 0
            ELSE LET t == SetMin(w) IN Pow2(t) + ToNat(w \ {t})

----------------------------------------------------------------------------
(* The inputs the model draws from.                                        *)

\* The size of one record of the control block: 3 * size_of::<u64>().
CONTROL_SIZE == 24

\* A little-endian 8-byte field with low byte b0 and high byte b7.
LEWord(b0, b7) == <<b0, 0, 0, 0, 0, 0, 0, b7>>

\* "BSDIFF40"
MAGIC == <<66, 83, 68, 73, 70, 70, 52, 48>>

BadMagic == <<66, 83, 68, 73, 70, 70, 52, 49>>

\* Header length fields: 5, -0, -5; target lengths: 2, -0, -2.
HeaderLenWords == {LEWord(5, 0), LEWord(0, 128), LEWord(5, 128)}

NewSizeWords == {LEWord(2, 0), LEWord(0, 128), LEWord(2, 128)}

Headers ==
    {MAGIC \o a \o b \o c : a \in HeaderLenWords, b \in HeaderLenWords, c \in NewSizeWords}
    \cup {BadMagic \o LEWord(5, 0) \o LEWord(5, 0) \o LEWord(2, 0)}
    \cup {SubSeq(MAGIC \o LEWord(5, 0) \o LEWord(5, 0) \o LEWord(2, 0), 1, n) :
            n \in {0, 7, 12, 16, 31}}

\* Control fields: copy lengths 0, 1, 2; insert lengths 0, 1; seeks 0, 1, -1.
CopyWords == {LEWord(0, 0), LEWord(1, 0), LEWord(2, 0)}

InsertWords == {LEWord(0, 0), LEWord(1, 0)}

\* The sign bit alone, and -1.
SignOnly == LEWord(0, 128)

MinusOne == LEWord(1, 128)

SeekWords == {LEWord(0, 0), LEWord(1, 0), MinusOne}

\* Records of the three fields: every combination of the values above, some
\* with the sign bit set in a length, one with the sign bit alone as its seek,
\* one with a seek of 2.
RawRecords ==
    {a \o b \o c : a \in CopyWords, b \in InsertWords, c \in SeekWords}
    \cup {a \o b \o LEWord(0, 0) : a \in {SignOnly, MinusOne}, b \in InsertWords}
    \cup {a \o b \o LEWord(0, 0) : a \in CopyWords, b \in {SignOnly, MinusOne}}
    \cup {LEWord(0, 0) \o LEWord(0, 0) \o SignOnly,
          LEWord(0, 0) \o LEWord(0, 0) \o LEWord(2, 0)}

\* Decompressed control blocks of up to n whole records.
RECURSIVE RecordBlocks(_)
RecordBlocks(n) ==
    IF n = 0 THEN {<<>>}
    ELSE LET shorter == RecordBlocks(n - 1)
         IN  shorter \cup {b \o r : b \in {x \in shorter : Len(x) = CONTROL_SIZE * (n - 1)},
                                    r \in RawRecords}

\* ... and two whose length is no multiple of the record size.
ControlBlocks ==
    RecordBlocks(MaxInstr) \cup {<<0>>, LEWord(1, 0) \o LEWord(0, 0) \o LEWord(0, 0) \o <<0>>}

DiffStreams == {<<>>, <<2, 255>>, <<0, 0>>}

ExtraStreams == {<<>>, <<10>>}

Originals == {<<>>, <<255, 7>>}

\* What the bzip2 decoder makes of a compressed block: an error, or its bytes.
Corrupt == [ok |-> FALSE]

Decompressed(bytes) == [ok |-> TRUE, data |-> bytes]

----------------------------------------------------------------------------
(* Bsdiff4::read                                                           *)

\* Up to n bytes of h from offset `from` (counted from 0): what a read gets.
Bytes(h, from, n) == SubSeq(h, from + 1, MinOf(Len(h), from + n))

Fail(msg) == [ok |-> FALSE, err |-> msg]

\* The magic and the three header lengths.
read_header(h) ==
    LET magic       == Bytes(h, 0, 8)
        len_control == read_positive_le_i64(Bytes(h, 8, 8))
        len_diff    == read_positive_le_i64(Bytes(h, 16, 8))
        size        == read_positive_le_i64(Bytes(h, 24, 8))
    IN  IF Len(magic) < Len(MAGIC) THEN Fail("failed to read bsdiff4 magic")
        ELSE IF magic # MAGIC THEN Fail("invalid bsdiff4 magic")
        ELSE IF ~len_control.ok THEN Fail("failed to read len_control")
        ELSE IF ~len_diff.ok THEN Fail("failed to read len_diff")
        ELSE IF ~size.ok THEN Fail("failed to read new_size")
        ELSE IF ~UsizeTryFrom(size.val).ok THEN Fail("out of range integral type conversion")
        ELSE [ok |-> TRUE, new_size |-> UsizeTryFrom(size.val).val]

\* One Control record from the 24 bytes at record index i (from 0).
read_control(b, i) ==
    LET d == read_positive_le_i64(Bytes(b, CONTROL_SIZE * i, 8))
        e == read_positive_le_i64(Bytes(b, CONTROL_SIZE * i + 8, 8))
        s == read_ones_complement_le_i64(Bytes(b, CONTROL_SIZE * i + 16, 8))
    IN  IF d.ok /\ e.ok /\ s.ok
        THEN [ok |-> TRUE,
              val |-> [diff_amount |-> d.val, extra_amount |-> e.val, seek |-> s.val]]
        ELSE [ok |-> FALSE]

read_control_block(z) ==
    IF ~z.ok THEN Fail("failed to read bcontrol")
    ELSE IF Len(z.data) % CONTROL_SIZE # 0 THEN Fail("invalid control block size")
    ELSE LET num_control == Len(z.data) \div CONTROL_SIZE
             recs == [i \in 1..num_control |-> read_control(z.data, i - 1)]
         IN  IF \E i \in 1..num_control : ~recs[i].ok
             THEN Fail("failed to read bcontrol")
             ELSE [ok |-> TRUE, control |-> [i \in 1..num_control |-> recs[i].val]]

read_bzip_block(z) == IF z.ok THEN [ok |-> TRUE, data |-> z.data] ELSE Fail("bzip2 error")

read_bzip_to_end(z) == IF z.ok THEN [ok |-> TRUE, data |-> z.data] ELSE Fail("bzip2 error")

Container == [new_size |-> new_size, control |-> control, diff |-> diff, extra |-> extra]

ReadFails(msg) ==
    /\ pc' = "read_err"
    /\ read_err' = msg

\* Bsdiff4::read, lines 20-34: the header.
ReadHeader ==
    /\ pc = "start"
    /\ \E h \in Headers :
         LET r == read_header(h)
         IN  /\ head' = h
             /\ IF r.ok
                THEN /\ pc' = "read_control"
                     /\ new_size' = r.new_size
                     /\ UNCHANGED read_err
                ELSE /\ ReadFails(r.err)
                     /\ UNCHANGED new_size
    /\ UNCHANGED <<block, control, diff, extra, parsed, apply_vars, memo, codec_vars>>

\* Bsdiff4::read, line 36: the control block.
ReadControl ==
    /\ pc = "read_control"
    /\ \E z \in {Corrupt} \cup {Decompressed(b) : b \in ControlBlocks} :
         LET r == read_control_block(z)
         IN  /\ block' = IF z.ok THEN z.data ELSE <<>>
             /\ IF r.ok
                THEN /\ pc' = "read_diff"
                     /\ control' = r.control
                     /\ UNCHANGED read_err
                ELSE /\ ReadFails(r.err)
                     /\ UNCHANGED control
    /\ UNCHANGED <<head, new_size, diff, extra, parsed, apply_vars, memo, codec_vars>>

\* Bsdiff4::read, line 37: the diff block.
ReadDiff ==
    /\ pc = "read_diff"
    /\ \E z \in {Corrupt} \cup {Decompressed(b) : b \in DiffStreams} :
         LET r == read_bzip_block(z)
         IN  IF r.ok
             THEN /\ pc' = "read_extra"
                  /\ diff' = r.data
                  /\ UNCHANGED read_err
             ELSE /\ ReadFails(r.err)
                  /\ UNCHANGED diff
    /\ UNCHANGED <<head, block, new_size, control, extra, parsed, apply_vars, memo, codec_vars>>

\* Bsdiff4::read, lines 38-47: the extra block, and the container returned.
ReadExtra ==
    /\ pc = "read_extra"
    /\ \E z \in {Corrupt} \cup {Decompressed(b) : b \in ExtraStreams} :
         LET r == read_bzip_to_end(z)
         IN  IF r.ok
             THEN /\ pc' = "parsed"
                  /\ extra' = r.data
                  /\ parsed' = <<[new_size |-> new_size, control |-> control,
                                  diff |-> diff, extra |-> r.data]>>
                  /\ UNCHANGED read_err
             ELSE /\ ReadFails(r.err)
                  /\ UNCHANGED <<extra, parsed>>
    /\ UNCHANGED <<head, block, new_size, control, diff, apply_vars, memo, codec_vars>>

----------------------------------------------------------------------------
(* Bsdiff4::apply and Bsdiff4::apply_to_slice                              *)

\* A faulty variant of wrapping_add: u8::saturating_add.
saturating_add(o, d) == MinOf(o + d, 255)

\* u8::wrapping_add
wrapping_add(o, d) == (o + d) % 256

\* What a cursor at position p over buf still has to give.
Remaining(buf, p) == IF p >= Len(buf) THEN <<>> ELSE SubSeq(buf, p + 1, Len(buf))

\* A faulty variant of copy_exact: the reader is left where it was.
copy_exact_rewound(buf, p, amount) ==
    LET rest == Remaining(buf, p)
        n    == IF IsSmall(amount) THEN MinOf(Len(rest), ToNat(amount)) ELSE Len(rest)
    IN  [ok      |-> IsSmall(amount) /\ ToNat(amount) = n,
         written |-> SubSeq(rest, 1, n),
         pos     |-> p]

\* A faulty variant of copy_exact: the count is not compared with amount.
copy_at_most(buf, p, amount) ==
    LET rest == Remaining(buf, p)
        n    == IF IsSmall(amount) THEN MinOf(Len(rest), ToNat(amount)) ELSE Len(rest)
    IN  [ok      |-> TRUE,
         written |-> SubSeq(rest, 1, n),
         pos     |-> p + n]

\* copy_exact: io::copy moves what reader.take(amount) gives, all of it, to the
\* writer; only then is the count compared with amount.
copy_exact(buf, p, amount) ==
    LET rest == Remaining(buf, p)
        n    == IF IsSmall(amount) THEN MinOf(Len(rest), ToNat(amount)) ELSE Len(rest)
    IN  [ok      |-> IsSmall(amount) /\ ToNat(amount) = n,
         written |-> SubSeq(rest, 1, n),
         pos     |-> p + n]

\* A faulty variant of SeekCurrent: SeekFrom::Start with the magnitude of n.
SeekFromStart(p, n) ==
    IF IsNegative(n) /\ ~IsSmall(WrappingNeg(n)) THEN [ok |-> FALSE]
    ELSE [ok |-> TRUE, pos |-> ToNat(WrappingAbs(n))]

\* A faulty variant of SeekCurrent: a seek before the start stops at the start.
SeekClamped(p, n) ==
    IF IsNegative(n)
    THEN LET back == WrappingNeg(n)
         IN  IF IsSmall(back) /\ ToNat(back) <= p
             THEN [ok |-> TRUE, pos |-> p - ToNat(back)]
             ELSE [ok |-> TRUE, pos |-> 0]
    ELSE [ok |-> TRUE, pos |-> p + ToNat(n)]

\* Cursor::seek(SeekFrom::Current(n)): pos.checked_add_signed(n), an error when
\* the position would be negative.  (Forward seeks here are below 2^SmallBits.)
SeekCurrent(p, n) ==
    IF IsNegative(n)
    THEN LET back == WrappingNeg(n)     \* n.unsigned_abs()
         IN  IF IsSmall(back) /\ ToNat(back) <= p
             THEN [ok |-> TRUE, pos |-> p - ToNat(back)]
             ELSE [ok |-> FALSE]
    ELSE [ok |-> TRUE, pos |-> p + ToNat(n)]

NoResult == [ok |-> FALSE, err |-> "pending"]

Ok == [ok |-> TRUE, err |-> ""]

ShortCopy == Fail("copied less bytes than expected")

BadSeek == Fail("invalid seek to a negative or overflowing position")

\* apply returns res having written out; apply_to_slice returns the vector
\* only with Ok, and drops it with an error.
Return(res, out) ==
    /\ pc' = IF pc = "apply" THEN "apply_returned" ELSE "apply_to_slice_returned"
    /\ result' = res
    /\ new' = IF pc = "apply_to_slice" /\ ~res.ok THEN <<>> ELSE out

Returned == pc \in {"apply_returned", "apply_to_slice_returned"}

Callable == pc = "parsed" \/ Returned

\* The call that has just returned, as the caller saw it.
LastCall ==
    [call |-> pc, original |-> original, start |-> start, result |-> result, new |-> new]

\* A faulty variant of DiffCursor: the cursor is kept from one call to the next.
DiffCursorKept == dpos

\* The cursor over self.diff and the cursor over self.extra, as apply makes them.
DiffCursor == 0

ExtraCursor == 0

\* Lines 51-54: the locals of apply, before the loop.  (memo keeps one earlier
\* call of the caller's choice, to compare a later call with.)
Enter(o, s) ==
    /\ original' = o
    /\ start' = s
    /\ pos' = s
    /\ dpos' = DiffCursor
    /\ epos' = ExtraCursor
    /\ new' = <<>>
    /\ k' = 1
    /\ result' = NoResult
    /\ \/ memo' = memo
       \/ /\ Returned
          /\ memo = <<>>
          /\ memo' = <<LastCall>>
    /\ UNCHANGED <<read_vars, codec_vars>>

\* Bsdiff4::apply_to_slice, lines 77-80: a fresh cursor over the slice.
apply_to_slice ==
    /\ Callable
    /\ pc' = "apply_to_slice"
    /\ \E o \in Originals : Enter(o, 0)

\* Bsdiff4::apply, called with a cursor the caller has moved already.
apply ==
    /\ Callable
    /\ pc' = "apply"
    /\ \E o \in Originals : \E s \in 1..MinOf(1, Len(o)) : Enter(o, s)

\* Lines 56-72: one pass of the loop, on control[k].
ApplyStep ==
    /\ pc \in {"apply", "apply_to_slice"}
    /\ k <= Len(control)
    /\ LET c     == control[k]
           a     == copy_exact(original, pos, c.diff_amount)
           b     == copy_exact(diff, dpos, c.diff_amount)
           chunk == [j \in 1..MinOf(Len(a.written), Len(b.written)) |->
                        wrapping_add(a.written[j], b.written[j])]
           e     == copy_exact(extra, epos, c.extra_amount)
           sk    == SeekCurrent(a.pos, c.seek)
       IN  IF ~a.ok
           THEN /\ Return(ShortCopy, new)
                /\ pos' = a.pos
                /\ UNCHANGED <<dpos, epos, k>>
           ELSE IF ~b.ok
           THEN /\ Return(ShortCopy, new)
                /\ pos' = a.pos
                /\ dpos' = b.pos
                /\ UNCHANGED <<epos, k>>
           ELSE IF ~e.ok
           THEN /\ Return(ShortCopy, new \o chunk \o e.written)
                /\ pos' = a.pos
                /\ dpos' = b.pos
                /\ epos' = e.pos
                /\ UNCHANGED k
           ELSE IF ~sk.ok
           THEN /\ Return(BadSeek, new \o chunk \o e.written)
                /\ pos' = a.pos
                /\ dpos' = b.pos
                /\ epos' = e.pos
                /\ UNCHANGED k
           ELSE /\ new' = new \o chunk \o e.written
                /\ pos' = sk.pos
                /\ dpos' = b.pos
                /\ epos' = e.pos
                /\ k' = k + 1
                /\ UNCHANGED <<pc, result>>
    /\ UNCHANGED <<read_vars, original, start, memo, codec_vars>>

\* Line 74 (and 82): the loop is over, Ok.
ApplyReturn ==
    /\ pc \in {"apply", "apply_to_slice"}
    /\ k > Len(control)
    /\ Return(Ok, new)
    /\ UNCHANGED <<read_vars, original, start, pos, dpos, epos, k, memo, codec_vars>>

----------------------------------------------------------------------------
(* The specification of the reader and the applier.                        *)

Init ==
    /\ pc = "start"
    /\ head = <<>>
    /\ block = <<>>
    /\ new_size = {}
    /\ control = <<>>
    /\ diff = <<>>
    /\ extra = <<>>
    /\ read_err = ""
    /\ parsed = <<>>
    /\ original = <<>>
    /\ start = 0
    /\ pos = 0
    /\ dpos = 0
    /\ epos = 0
    /\ new = <<>>
    /\ k = 1
    /\ result = NoResult
    /\ memo = <<>>
    /\ codec_in = <<>>
    /\ codec_out = {}

Next ==
    \/ ReadHeader
    \/ ReadControl
    \/ ReadDiff
    \/ ReadExtra
    \/ apply_to_slice
    \/ apply
    \/ ApplyStep
    \/ ApplyReturn

Spec == Init /\ [][Next]_vars

----------------------------------------------------------------------------
(* read_ones_complement_le_i64 on its own, over 8-byte fields of every     *)
(* shape: low byte, high byte, and the six bytes between all alike.        *)

CodecWords ==
    {<<b0, f, f, f, f, f, f, b7>> :
        b0 \in {0, 1, 2, 255}, f \in {0, 1, 255}, b7 \in {0, 1, 127, 128, 129, 255}}

InitCodec ==
    /\ pc = "codec"
    /\ codec_in \in CodecWords
    /\ codec_out = {}
    /\ head = <<>> /\ block = <<>> /\ new_size = {} /\ control = <<>>
    /\ diff = <<>> /\ extra = <<>> /\ read_err = "" /\ parsed = <<>>
    /\ original = <<>> /\ start = 0 /\ pos = 0 /\ dpos = 0 /\ epos = 0
    /\ new = <<>> /\ k = 1 /\ result = NoResult /\ memo = <<>>

Decode ==
    /\ pc = "codec"
    /\ pc' = "decoded"
    /\ codec_out' = read_ones_complement_le_i64(codec_in).val
    /\ UNCHANGED <<read_vars, apply_vars, memo, codec_in>>

NextCodec == Decode

SpecCodec == InitCodec /\ [][NextCodec]_vars

----------------------------------------------------------------------------
(* What the properties below are stated with: the container's instructions *)
(* read as numbers, and the replay the format defines, computed from the   *)
(* call's arguments alone.                                                 *)

NumInstr == Len(control)

InLoop == pc \in {"apply", "apply_to_slice"}

CopyLen(i) == ToNat(control[i].diff_amount)

InsertLen(i) == ToNat(control[i].extra_amount)

\* A magnitude of 2^SmallBits or more stands for "further back than any
\* buffer or forward seek of the model reaches".
FarBack == 0 - Pow2(SmallBits)

SeekDelta(i) ==
    LET w == control[i].seek
    IN  IF ~IsNegative(w) THEN ToNat(w)
        ELSE IF IsSmall(WrappingNeg(w)) THEN 0 - ToNat(WrappingNeg(w))
        ELSE FarBack

\* Sum of f(1) .. f(n).
RECURSIVE SumOver(_, _)
SumOver(f(_), n) == IF n = 0 THEN 0 ELSE f(n) + SumOver(f, n - 1)

Advance(i) == CopyLen(i) + SeekDelta(i)

Emitted(i) == CopyLen(i) + InsertLen(i)

\* Where the format puts the three cursors before instruction i.
CursorBefore(i) == start + SumOver(Advance, i - 1)

DiffBefore(i) == SumOver(CopyLen, i - 1)

ExtraBefore(i) == SumOver(InsertLen, i - 1)

OutBefore(i) == SumOver(Emitted, i - 1)

\* Instruction i asks for bytes that are not there.
OriginalShort(i) ==
    /\ CopyLen(i) > 0
    /\ \/ CursorBefore(i) < 0
       \/ CursorBefore(i) + CopyLen(i) > Len(original)

DiffShort(i) == DiffBefore(i) + CopyLen(i) > Len(diff)

ExtraShort(i) == ExtraBefore(i) + InsertLen(i) > Len(extra)

Exhausted(i) == OriginalShort(i) \/ DiffShort(i) \/ ExtraShort(i)

\* The bytes instruction i stands for, when none of its reads is short.
CopyPart(i) ==
    [j \in 1..CopyLen(i) |->
        (original[CursorBefore(i) + j] + diff[DiffBefore(i) + j]) % 256]

InsertPart(i) == SubSeq(extra, ExtraBefore(i) + 1, ExtraBefore(i) + InsertLen(i))

RECURSIVE Target(_)
Target(n) == IF n = 0 THEN <<>> ELSE Target(n - 1) \o CopyPart(n) \o InsertPart(n)

\* The patch describes a target: every byte it names exists.
Describes == \A i \in 1..NumInstr : ~Exhausted(i)

\* No seek of the patch leaves the cursor before the start of the original.
NeverBeforeStart == \A i \in 1..NumInstr : CursorBefore(i + 1) >= 0

\* No seek field of the container is the sign bit alone.
NoSignOnlySeek == \A i \in 1..NumInstr : control[i].seek # I64_MIN

\* The sign bit of an 8-byte little-endian field, as the format defines it.
SignBit(field) == field[8] >= 128

\* a + b modulo 2^64, bit by bit with a carry.
RECURSIVE AddFrom(_, _, _, _)
AddFrom(a, b, i, carry) ==
    IF i = I64_BITS THEN {}
    ELSE LET x == (IF i \in a THEN 1 ELSE 0) + (IF i \in b THEN 1 ELSE 0) + carry
         IN  (IF x % 2 = 1 THEN {i} ELSE {}) \cup AddFrom(a, b, i + 1, x \div 2)

Add64(a, b) == AddFrom(a, b, 0, 0)

----------------------------------------------------------------------------
(* C1.  Round trip.                                                        *)

----------------------------------------------------------------------------
(* C2.  Output length and target length.                                   *)

\* C2: whenever apply returns Ok, the sum of copy_len + insert_len over the
\* instructions equals new_size, the target length of the header.
C2_OutputLengthIsTargetLength ==
    (Returned /\ result.ok) => SumOver(Emitted, NumInstr) = ToNat(new_size)

----------------------------------------------------------------------------
(* C3.  Stream consumption.                                                *)

\* C3: whenever apply returns Ok, all of diff and all of extra was consumed.
C3_StreamsFullyConsumed ==
    (Returned /\ result.ok) => (dpos = Len(diff) /\ epos = Len(extra))

----------------------------------------------------------------------------
(* C4.  Signed-magnitude decoding.                                         *)

\* C4: a field with sign bit s and 63-bit magnitude m decodes to m when s = 0
\* and to -m when s = 1 (the 64-bit word that added to m gives 0), so to 0
\* when s = 1 and m = 0.
C4_SignedMagnitudeDecode ==
    pc = "decoded" =>
        LET m == ReadI64LE(codec_in) \ I64_MIN
        IN  IF SignBit(codec_in)
            THEN Add64(codec_out, m) = {}
            ELSE codec_out = m

----------------------------------------------------------------------------
(* C5.  Negative lengths are rejected.                                     *)

HeaderSigned ==
    /\ Len(head) = 32
    /\ \E n \in 1..3 : SignBit(Bytes(head, 8 * n, 8))

RecordSigned(i) ==
    \/ SignBit(Bytes(block, CONTROL_SIZE * (i - 1), 8))
    \/ SignBit(Bytes(block, CONTROL_SIZE * (i - 1) + 8, 8))

BlockSigned ==
    /\ Len(block) % CONTROL_SIZE = 0
    /\ \E i \in 1..(Len(block) \div CONTROL_SIZE) : RecordSigned(i)

\* C5: Bsdiff4::read fails whenever a length field of the header or of a
\* control record has its sign bit set, and no length of a container it
\* built has the sign bit set.
C5_NegativeLengthRejected ==
    /\ HeaderSigned => pc = "read_err"
    /\ BlockSigned => pc = "read_err"
    /\ ~IsNegative(new_size)
    /\ \A i \in 1..NumInstr :
          ~IsNegative(control[i].diff_amount) /\ ~IsNegative(control[i].extra_amount)

\* read failed on a control block whose second record has a negative
\* insert length, after a header without a sign bit.
C5_Witness ==
    /\ pc = "read_err"
    /\ Len(head) = 32
    /\ ~HeaderSigned
    /\ Len(block) = 2 * CONTROL_SIZE
    /\ ~RecordSigned(1)
    /\ SignBit(Bytes(block, CONTROL_SIZE + 8, 8))
    /\ ~SignBit(Bytes(block, CONTROL_SIZE, 8))

----------------------------------------------------------------------------
(* C6.  Exhaustion.                                                        *)

\* Fewer bytes are left, at the cursors as they are, than control[k] asks for.
ShortNow ==
    \/ CopyLen(k) > Len(Remaining(original, pos))
    \/ CopyLen(k) > Len(Remaining(diff, dpos))
    \/ InsertLen(k) > Len(Remaining(extra, epos))

\* C6: an instruction that asks for more than the original, diff or extra
\* still has makes apply return an error at that instruction; an instruction
\* the loop gets past has emitted all of its copy_len + insert_len bytes.
C6_ExhaustionFails ==
    [][(InLoop /\ k <= NumInstr) =>
          /\ ShortNow => (Returned' /\ ~result'.ok /\ k' = k)
          /\ k' = k + 1 => Len(new') = Len(new) + Emitted(k)]_vars

\* apply failed at its second instruction, whose insert_len is more than
\* extra had left, having written part of the output.
C6_Witness ==
    /\ pc = "apply_returned"
    /\ result = ShortCopy
    /\ k = 2
    /\ ~OriginalShort(2)
    /\ ~DiffShort(2)
    /\ ExtraShort(2)
    /\ Len(new) > 0

----------------------------------------------------------------------------
(* C7.  Seek correctness.                                                  *)

\* C7: before the copy step of instruction k the original's cursor is at
\* start plus the sum of copy_len + seek_delta of the instructions before k.
C7_SeekCorrectness == InLoop => pos = CursorBefore(k)

\* With no bytes copied, seeks +2 and -1 left the cursor at start + 1.
C7_Witness ==
    /\ InLoop
    /\ k = 3
    /\ CopyLen(1) = 0
    /\ CopyLen(2) = 0
    /\ SeekDelta(1) = 2
    /\ SeekDelta(2) = 0 - 1
    /\ pos = start + 1

----------------------------------------------------------------------------
(* C8.  Wrap-around arithmetic.                                            *)

\* C8: every byte the copy step emitted is the original byte plus the diff
\* byte, less 256 when the sum is above 255.
C8_WrapAround ==
    InLoop =>
        \A i \in 1..(k - 1) : \A j \in 1..CopyLen(i) :
            LET sum == original[CursorBefore(i) + j] + diff[DiffBefore(i) + j]
            IN  new[OutBefore(i) + j] = IF sum > 255 THEN sum - 256 ELSE sum

\* 0xFF plus 0x02 was emitted as 0x01, and apply went on.
C8_Witness ==
    /\ InLoop
    /\ k = 2
    /\ CopyLen(1) >= 1
    /\ original[start + 1] = 255
    /\ diff[1] = 2
    /\ new[1] = 1

----------------------------------------------------------------------------
(* C9.  Repeatable apply.                                                  *)

SameCallAsMemo ==
    /\ memo # <<>>
    /\ memo[1].call = pc
    /\ memo[1].original = original
    /\ memo[1].start = start

----------------------------------------------------------------------------
(* C10.  Seeks out of range.                                               *)

====
